---- MODULE Spec2Model ----
(***************************************************************************)
(* Model of internet_tray_monitor.py: the two polling threads              *)
(* (check_connection, rtt_tracker), the tray's on_exit, the module-level   *)
(* state they share, and the wall clock they read.                         *)
(*                                                                         *)
(* Time is counted in ticks; TicksPerDay ticks make one calendar day.      *)
(* The clock is taken to be non-decreasing.  Writes to the log and the     *)
(* summary file succeed in specification Spec.                             *)
(***************************************************************************)
EXTENDS Integers, Sequences, FiniteSets, TLC

\* ------------------------------------------------------------ bounds
\* Last tick of the wall clock that a run explores.
MaxClock == 2
\* Ticks per calendar day.
TicksPerDay == 1
\* Loop iterations that a run explores: an iteration of check_connection
\* counts once and an iteration of rtt_tracker twice, see Started.
MaxCycles == 4
\* Capacity of every series: MAX_POINTS = 60 at line 32, scaled down so that
\* a run fills a series and evicts from it.
MAX_POINTS == 2

\* ------------------------------------------------------------ configuration
HostOrder == <<"gateway", "google", "cloudflare", "quad4">>
PING_TARGETS == {HostOrder[i] : i \in 1..Len(HostOrder)}
MIN_SUCCESSFUL_PINGS == 2
\* Sleep intervals in tenths of a second.
NORMAL_INTERVAL == 50
FAST_INTERVAL == 1
TRACKER_INTERVAL == 10

\* Python's None, for a time or an interval that is not set.
None == -1

\* Round-trip times a ping may report, in ms.
RttVals == {5, 12}

\* ------------------------------------------------------------ time
Times == 0..MaxClock
\* datetime.date(): the calendar day of an instant.
DateOf(t) == t \div TicksPerDay
Dates == {DateOf(t) : t \in Times}
\* date.strftime("%Y-%m-%d"): the day as text.
strftime(d) == ToString(d)
\* datetime.strptime(s, "%Y-%m-%d").date(): the day a text names.
strptime(s) == CHOOSE d \in Dates : ToString(d) = s
\* datetime.combine(date, datetime.min.time()): midnight of a day.
Midnight(d) == d * TicksPerDay

\* ------------------------------------------------------------ helpers
RECURSIVE SumSeq(_)
SumSeq(s) == IF s = <<>> THEN 0 ELSE Head(s) + SumSeq(Tail(s))

RECURSIVE MaxSeq(_)
MaxSeq(s) == IF Len(s) = 1 THEN Head(s)
             ELSE LET m == MaxSeq(Tail(s)) IN IF Head(s) >= m THEN Head(s) ELSE m

RECURSIVE MinSeq(_)
MinSeq(s) == IF Len(s) = 1 THEN Head(s)
             ELSE LET m == MinSeq(Tail(s)) IN IF Head(s) <= m THEN Head(s) ELSE m

\* dict.items() of an rtts dict: its keys in insertion order, which is the
\* order of PING_TARGETS.
RECURSIVE ItemsFrom(_, _)
ItemsFrom(rtts, i) ==
    IF i > Len(HostOrder) THEN <<>>
    ELSE IF HostOrder[i] \in DOMAIN rtts
         THEN <<HostOrder[i]>> \o ItemsFrom(rtts, i + 1)
         ELSE ItemsFrom(rtts, i + 1)
Items(rtts) == ItemsFrom(rtts, 1)

\* sum(rtts.values())
RECURSIVE SumValues(_, _)
SumValues(rtts, keys) ==
    IF keys = <<>> THEN 0 ELSE rtts[Head(keys)] + SumValues(rtts, Tail(keys))

\* ------------------------------------------------------------ bounded series
\* Mutant of DequeAppend: the deque has no maxlen.
DequeAppend_Unbounded(d, x) == Append(d, x)

\* Mutant of DequeAppend: once full, the item at the same (right) end is
\* discarded.
DequeAppend_DropsNewest(d, x) ==
    IF Len(d) >= MAX_POINTS THEN Append(SubSeq(d, 1, Len(d) - 1), x) ELSE Append(d, x)

\* deque(maxlen=MAX_POINTS).append(x): once full, the item at the opposite
\* (left) end is discarded.
DequeAppend(d, x) ==
    IF Len(d) >= MAX_POINTS THEN Append(Tail(d), x) ELSE Append(d, x)

\* ------------------------------------------------------------ prober
\* What one ping of one host gives: the process exits non-zero (raised), or
\* its output does or does not hold "TTL=" and "Zeit=<n>ms".
PingResults ==
    [raised : {TRUE}, ttl : {FALSE}, zeit : {None}]
    \cup [raised : {FALSE}, ttl : BOOLEAN, zeit : {None} \cup RttVals]

\* The text between "Zeit=" and "ms" is not the text of an integer: int() at
\* line 80 raises ValueError.
NotANumber == -2

\* What the text of one ping's output can be beyond PingResults: "Zeit=" is
\* followed by a text that int() rejects.
PingOutputs ==
    PingResults \cup [raised : {FALSE}, ttl : BOOLEAN, zeit : {NotANumber}]

Failed == [raised |-> TRUE, ttl |-> FALSE, zeit |-> None]
NoReply == [raised |-> FALSE, ttl |-> FALSE, zeit |-> None]
Reply(z) == [raised |-> FALSE, ttl |-> TRUE, zeit |-> z]

\* The body of is_connected's for loop, from host i on: the votes, the rtts,
\* the hosts pinged, and whether int() raised ValueError, which only
\* "except subprocess.CalledProcessError" (line 81) could catch and does not:
\* the loop and the function are left at that host.
RECURSIVE PingLoop(_, _, _, _)
PingLoop(out, i, success, rtts) ==
    IF i > Len(HostOrder)
    THEN [success |-> success, rtts |-> rtts, pinged |-> HostOrder, error |-> FALSE]
    ELSE LET label == HostOrder[i]
             o == out[label]
         IN IF o.raised THEN PingLoop(out, i + 1, success, rtts)
            ELSE IF o.ttl
                 THEN IF o.zeit = NotANumber
                      THEN [success |-> success + 1, rtts |-> rtts,
                            pinged |-> SubSeq(HostOrder, 1, i), error |-> TRUE]
                      ELSE IF o.zeit # None
                      THEN PingLoop(out, i + 1, success + 1, (label :> o.zeit) @@ rtts)
                      ELSE PingLoop(out, i + 1, success + 1, rtts)
                 ELSE PingLoop(out, i + 1, success, rtts)

\* Mutant of is_connected: the threshold must be exceeded.
is_connected_Strict(out) ==
    LET r == PingLoop(out, 1, 0, <<>>)
    IN [connected |-> r.success > MIN_SUCCESSFUL_PINGS, rtts |-> r.rtts,
        error |-> r.error]

\* is_connected(): the verdict and the rtts dict, for the pings' results
\* out, or the ValueError that leaves it without a return value (error).
is_connected(out) ==
    LET r == PingLoop(out, 1, 0, <<>>)
    IN [connected |-> r.success >= MIN_SUCCESSFUL_PINGS, rtts |-> r.rtts,
        error |-> r.error]

\* Results of one pass over the hosts that the threads' runs explore.
Pass(gw, go, cf, q4) ==
    [h \in PING_TARGETS |->
        CASE h = "gateway" -> gw [] h = "google" -> go
          [] h = "cloudflare" -> cf [] OTHER -> q4]
CycleInputs ==
    { Pass(Failed, NoReply, Failed, Failed),
      Pass(Reply(5), Failed, Failed, Failed),
      Pass(Reply(5), Reply(12), Failed, Failed),
      Pass(Failed, Failed, Reply(None), Reply(None)) }
\* Results of one pass that rtt_tracker's runs explore.
TrackerInputs ==
    { Pass(Failed, NoReply, Failed, Failed),
      Pass(Reply(12), Failed, Failed, Failed) }

\* ------------------------------------------------------------ state
VARIABLES
    clock,                    \* datetime.now()
    running,
    disconnected,
    disconnect_time,
    outage_durations_by_day,  \* dict: date text -> list of durations
    last_checked_date,
    graph_data,               \* label -> [timestamps, rtts], two deques
    logfile,                  \* lines appended to LOGFILE
    summaryfile,              \* blocks appended to internet_summary.txt
    cc,                       \* check_connection: position and locals
    rt,                       \* rtt_tracker: position and locals
    appended                  \* history: label -> all values ever appended to each
                              \* deque, and the samples (now_dt, rtt) as begun

vars == <<clock, running, disconnected, disconnect_time, outage_durations_by_day,
          last_checked_date, graph_data, logfile, summaryfile, cc, rt, appended>>

shared == <<appended, running, disconnected, disconnect_time, outage_durations_by_day,
            last_checked_date, graph_data, logfile, summaryfile>>

Init ==
    /\ clock = 0
    /\ running = TRUE
    /\ disconnected = FALSE
    /\ disconnect_time = None
    /\ outage_durations_by_day = <<>>
    /\ last_checked_date = DateOf(clock)
    /\ graph_data = [label \in PING_TARGETS |-> [timestamps |-> <<>>, rtts |-> <<>>]]
    /\ logfile = <<>>
    /\ appended = [label \in PING_TARGETS |->
                       [timestamps |-> <<>>, rtts |-> <<>>, samples |-> <<>>]]
    /\ summaryfile = <<>>
    /\ cc = [pc |-> "while", cycles |-> 0, out |-> <<>>,
             connected |-> FALSE, rtts |-> <<>>, now |-> None, now_dt |-> None,
             items |-> <<>>, slept |-> None]
    /\ rt = [pc |-> "while", cycles |-> 0, rtts |-> <<>>, now_dt |-> None,
             items |-> <<>>, slept |-> None]

\* The loop iterations started so far, as MaxCycles counts them.
Started == cc.cycles + 2 * rt.cycles

\* ------------------------------------------------------------ environment
\* The wall clock advances.
Tick ==
    /\ clock < MaxClock
    /\ clock' = clock + 1
    /\ UNCHANGED <<shared, cc, rt>>

\* on_exit: the tray's "Beenden".
on_exit ==
    /\ running
    /\ running' = FALSE
    /\ UNCHANGED <<clock, disconnected, disconnect_time, outage_durations_by_day,
                   last_checked_date, appended, graph_data, logfile, summaryfile, cc, rt>>

\* ------------------------------------------------------------ outage aggregator
\* Mutant of write_daily_summary: the shortest outage is taken to be the first.
write_daily_summary_FirstIsShortest(date_str, durations, now_) ==
    IF durations = <<>> THEN summaryfile
    ELSE Append(summaryfile,
                [date |-> date_str,
                 messdauer |-> now_ - Midnight(strptime(date_str)),
                 count |-> Len(durations),
                 total |-> SumSeq(durations),
                 longest |-> MaxSeq(durations),
                 shortest |-> Head(durations)])

\* write_daily_summary(date_str, durations), called at instant now_: the
\* summary file after the call.
write_daily_summary(date_str, durations, now_) ==
    IF durations = <<>> THEN summaryfile
    ELSE Append(summaryfile,
                [date |-> date_str,
                 messdauer |-> now_ - Midnight(strptime(date_str)),
                 count |-> Len(durations),
                 total |-> SumSeq(durations),
                 longest |-> MaxSeq(durations),
                 shortest |-> MinSeq(durations)])

\* outage_durations_by_day.setdefault(date_str, []).append(duration)
RecordOutage(by_day, date_str, duration) ==
    IF date_str \in DOMAIN by_day
    THEN [by_day EXCEPT ![date_str] = Append(@, duration)]
    ELSE (date_str :> <<duration>>) @@ by_day

\* ------------------------------------------------------------ check_connection
\* Mutant of CcWhile: last_checked_date = current_date is forgotten.
CcWhile_NoDateUpdate ==
    /\ cc.pc = "while"
    /\ IF running
       THEN /\ Started + 1 <= MaxCycles
            /\ LET current_date == DateOf(clock)
                   prev_str == strftime(last_checked_date)
               IN IF current_date # last_checked_date
                  THEN summaryfile' =
                          IF prev_str \in DOMAIN outage_durations_by_day
                          THEN write_daily_summary(
                                   prev_str, outage_durations_by_day[prev_str], clock)
                          ELSE summaryfile
                  ELSE UNCHANGED summaryfile
            /\ cc' = [cc EXCEPT !.pc = "probe", !.cycles = @ + 1]
       ELSE /\ cc' = [cc EXCEPT !.pc = "done"]
            /\ UNCHANGED summaryfile
    /\ UNCHANGED <<clock, running, disconnected, disconnect_time, last_checked_date,
                   outage_durations_by_day, appended, graph_data, logfile, rt>>

\* Mutant of CcWhile: the rollover writes a summary whether or not the tracked
\* date has a bucket with durations in it.
CcWhile_SummaryAlways ==
    /\ cc.pc = "while"
    /\ IF running
       THEN /\ Started + 1 <= MaxCycles
            /\ LET current_date == DateOf(clock)
                   prev_str == strftime(last_checked_date)
                   durations == IF prev_str \in DOMAIN outage_durations_by_day
                                THEN outage_durations_by_day[prev_str] ELSE <<>>
               IN IF current_date # last_checked_date
                  THEN /\ summaryfile' =
                            Append(summaryfile,
                                   [date |-> prev_str,
                                    messdauer |-> clock - Midnight(strptime(prev_str)),
                                    count |-> Len(durations),
                                    total |-> SumSeq(durations),
                                    longest |-> IF durations = <<>> THEN 0
                                                ELSE MaxSeq(durations),
                                    shortest |-> IF durations = <<>> THEN 0
                                                 ELSE MinSeq(durations)])
                       /\ last_checked_date' = current_date
                  ELSE UNCHANGED <<summaryfile, last_checked_date>>
            /\ cc' = [cc EXCEPT !.pc = "probe", !.cycles = @ + 1]
       ELSE /\ cc' = [cc EXCEPT !.pc = "done"]
            /\ UNCHANGED <<summaryfile, last_checked_date>>
    /\ UNCHANGED <<clock, running, disconnected, disconnect_time,
                   outage_durations_by_day, appended, graph_data, logfile, rt>>

\* Lines 151-157: the loop's test of running, then the day rollover.  The
\* clock is read once: nothing blocks between line 152 and line 132.
CcWhile ==
    /\ cc.pc = "while"
    /\ IF running
       THEN /\ Started + 1 <= MaxCycles
            /\ LET current_date == DateOf(clock)
                   prev_str == strftime(last_checked_date)
               IN IF current_date # last_checked_date
                  THEN /\ summaryfile' =
                            IF prev_str \in DOMAIN outage_durations_by_day
                            THEN write_daily_summary(
                                     prev_str, outage_durations_by_day[prev_str], clock)
                            ELSE summaryfile
                       /\ last_checked_date' = current_date
                  ELSE UNCHANGED <<summaryfile, last_checked_date>>
            /\ cc' = [cc EXCEPT !.pc = "probe", !.cycles = @ + 1]
       ELSE /\ cc' = [cc EXCEPT !.pc = "done"]
            /\ UNCHANGED <<summaryfile, last_checked_date>>
    /\ UNCHANGED <<clock, running, disconnected, disconnect_time,
                   outage_durations_by_day, appended, graph_data, logfile, rt>>

\* Mutant of CcProbeOf: "if not disconnected" at line 194 is forgotten.
CcProbeOf_IgnoresFlag(out) ==
    /\ cc.pc = "probe"
    /\ LET r == is_connected(out)
       IN IF r.error
          THEN cc' = [cc EXCEPT !.out = out, !.pc = "raised"]
          ELSE cc' = [cc EXCEPT
              !.out = out,
              !.connected = r.connected,
              !.rtts = r.rtts,
              !.now = clock,
              !.now_dt = IF r.connected /\ r.rtts # <<>> THEN clock ELSE None,
              !.items = IF r.connected THEN Items(r.rtts) ELSE <<>>,
              !.pc = IF r.connected
                     THEN IF r.rtts # <<>> THEN "append_ts"
                          ELSE IF disconnected THEN "reconnect" ELSE "sleep"
                     ELSE "disconnect"]
    /\ UNCHANGED <<clock, shared, rt>>

\* Mutant of CcProbeOf: the rtts are forwarded whatever the verdict is.
CcProbeOf_ForwardsAlways(out) ==
    /\ cc.pc = "probe"
    /\ LET r == is_connected(out)
       IN IF r.error
          THEN cc' = [cc EXCEPT !.out = out, !.pc = "raised"]
          ELSE cc' = [cc EXCEPT
              !.out = out,
              !.connected = r.connected,
              !.rtts = r.rtts,
              !.now = clock,
              !.now_dt = IF r.rtts # <<>> THEN clock ELSE None,
              !.items = Items(r.rtts),
              !.pc = IF r.rtts # <<>> THEN "append_ts"
                     ELSE IF r.connected
                          THEN IF disconnected THEN "reconnect" ELSE "sleep"
                          ELSE IF ~disconnected THEN "disconnect" ELSE "sleep"]
    /\ UNCHANGED <<clock, shared, rt>>

\* Lines 159-164, as is_connected returns with the pings' results out: the
\* verdict and the rtts, the time of the log lines, the branches at 162, 163,
\* 173, 193 and 194, and now_dt with the start of the for loop.  The clock is
\* read once: nothing blocks between line 160 and line 164.  When
\* is_connected raises, line 159 assigns nothing and the exception leaves
\* check_connection, which has no handler.
CcProbeOf(out) ==
    /\ cc.pc = "probe"
    /\ LET r == is_connected(out)
       IN IF r.error
          THEN cc' = [cc EXCEPT !.out = out, !.pc = "raised"]
          ELSE cc' = [cc EXCEPT
              !.out = out,
              !.connected = r.connected,
              !.rtts = r.rtts,
              !.now = clock,
              !.now_dt = IF r.connected /\ r.rtts # <<>> THEN clock ELSE None,
              !.items = IF r.connected THEN Items(r.rtts) ELSE <<>>,
              !.pc = IF r.connected
                     THEN IF r.rtts # <<>> THEN "append_ts"
                          ELSE IF disconnected THEN "reconnect" ELSE "sleep"
                     ELSE IF ~disconnected THEN "disconnect" ELSE "sleep"]
    /\ UNCHANGED <<clock, shared, rt>>

CcProbe == \E out \in CycleInputs : CcProbeOf(out)

\* Line 166: graph_data[label]["timestamps"].append(now_dt)
CcAppendTs ==
    /\ cc.pc = "append_ts"
    /\ LET label == Head(cc.items)
       IN /\ graph_data' = [graph_data EXCEPT ![label].timestamps =
                                                  DequeAppend(@, cc.now_dt)]
          /\ appended' = [appended EXCEPT
                 ![label].timestamps = Append(@, cc.now_dt),
                 ![label].samples = Append(@, <<cc.now_dt, cc.rtts[label]>>)]
    /\ cc' = [cc EXCEPT !.pc = "append_rtt"]
    /\ UNCHANGED <<clock, running, disconnected, disconnect_time,
                   outage_durations_by_day, last_checked_date, logfile,
                   summaryfile, rt>>

\* Line 167: graph_data[label]["rtts"].append(rtt), and the loop's next item.
CcAppendRtt ==
    /\ cc.pc = "append_rtt"
    /\ LET label == Head(cc.items)
       IN /\ graph_data' = [graph_data EXCEPT ![label].rtts =
                                                  DequeAppend(@, cc.rtts[label])]
          /\ appended' = [appended EXCEPT ![label].rtts =
                                              Append(@, cc.rtts[label])]
    /\ cc' = [cc EXCEPT !.items = Tail(cc.items),
                        !.pc = IF Tail(cc.items) = <<>> THEN "log_rtt"
                               ELSE "append_ts"]
    /\ UNCHANGED <<clock, running, disconnected, disconnect_time,
                   outage_durations_by_day, last_checked_date, logfile,
                   summaryfile, rt>>

\* Lines 169-171: the [RTT] line, with the batch average as sum and count.
CcLogRtt ==
    /\ cc.pc = "log_rtt"
    /\ logfile' = Append(logfile,
                         [kind |-> "RTT", now |-> cc.now,
                          sum |-> SumValues(cc.rtts, Items(cc.rtts)),
                          n |-> Len(Items(cc.rtts))])
    /\ cc' = [cc EXCEPT !.pc = IF disconnected THEN "reconnect" ELSE "sleep"]
    /\ UNCHANGED <<clock, running, disconnected, disconnect_time,
                   outage_durations_by_day, last_checked_date, appended, graph_data,
                   summaryfile, rt>>

\* Mutant of CcReconnect: disconnected = False is forgotten.
CcReconnect_FlagNotCleared ==
    /\ cc.pc = "reconnect"
    /\ LET reconnect_time == clock
           duration == reconnect_time - disconnect_time
           date_str == strftime(DateOf(disconnect_time))
       IN /\ outage_durations_by_day' =
                 RecordOutage(outage_durations_by_day, date_str, duration)
          /\ logfile' = Append(logfile, [kind |-> "WIEDER ONLINE", now |-> cc.now,
                                         duration |-> duration])
    /\ cc' = [cc EXCEPT !.pc = "sleep"]
    /\ UNCHANGED <<clock, running, disconnected, disconnect_time, last_checked_date,
                   appended, graph_data, summaryfile, rt>>

\* Mutant of CcReconnect: the duration is start - end.
CcReconnect_Reversed ==
    /\ cc.pc = "reconnect"
    /\ LET reconnect_time == clock
           duration == disconnect_time - reconnect_time
           date_str == strftime(DateOf(disconnect_time))
       IN /\ outage_durations_by_day' =
                 RecordOutage(outage_durations_by_day, date_str, duration)
          /\ logfile' = Append(logfile, [kind |-> "WIEDER ONLINE", now |-> cc.now,
                                         duration |-> duration])
    /\ disconnected' = FALSE
    /\ cc' = [cc EXCEPT !.pc = "sleep"]
    /\ UNCHANGED <<clock, running, disconnect_time, last_checked_date,
                   appended, graph_data, summaryfile, rt>>

\* Mutant of CcReconnect: the bucket is that of the date of the reconnect.
CcReconnect_EndDate ==
    /\ cc.pc = "reconnect"
    /\ LET reconnect_time == clock
           duration == reconnect_time - disconnect_time
           date_str == strftime(DateOf(reconnect_time))
       IN /\ outage_durations_by_day' =
                 RecordOutage(outage_durations_by_day, date_str, duration)
          /\ logfile' = Append(logfile, [kind |-> "WIEDER ONLINE", now |-> cc.now,
                                         duration |-> duration])
    /\ disconnected' = FALSE
    /\ cc' = [cc EXCEPT !.pc = "sleep"]
    /\ UNCHANGED <<clock, running, disconnect_time, last_checked_date,
                   appended, graph_data, summaryfile, rt>>

\* Lines 174-189: the outage ends.
CcReconnect ==
    /\ cc.pc = "reconnect"
    /\ LET reconnect_time == clock
           duration == reconnect_time - disconnect_time
           date_str == strftime(DateOf(disconnect_time))
       IN /\ outage_durations_by_day' =
                 RecordOutage(outage_durations_by_day, date_str, duration)
          /\ logfile' = Append(logfile, [kind |-> "WIEDER ONLINE", now |-> cc.now,
                                         duration |-> duration])
    /\ disconnected' = FALSE
    /\ cc' = [cc EXCEPT !.pc = "sleep"]
    /\ UNCHANGED <<clock, running, disconnect_time, last_checked_date,
                   appended, graph_data, summaryfile, rt>>

\* Mutant of CcDisconnect: disconnected = True is forgotten.
CcDisconnect_FlagNotSet ==
    /\ cc.pc = "disconnect"
    /\ disconnect_time' = clock
    /\ logfile' = Append(logfile, [kind |-> "OFFLINE", now |-> cc.now])
    /\ cc' = [cc EXCEPT !.pc = "sleep"]
    /\ UNCHANGED <<clock, running, disconnected, outage_durations_by_day,
                   last_checked_date, appended, graph_data, summaryfile, rt>>

\* Lines 195-205: the outage starts.
CcDisconnect ==
    /\ cc.pc = "disconnect"
    /\ disconnect_time' = clock
    /\ logfile' = Append(logfile, [kind |-> "OFFLINE", now |-> cc.now])
    /\ disconnected' = TRUE
    /\ cc' = [cc EXCEPT !.pc = "sleep"]
    /\ UNCHANGED <<clock, running, outage_durations_by_day, last_checked_date,
                   appended, graph_data, summaryfile, rt>>

\* Mutant of CcSleep: the two intervals are exchanged.
CcSleep_Swapped ==
    /\ cc.pc = "sleep"
    /\ cc' = [cc EXCEPT !.pc = "while",
                        !.slept = IF cc.connected THEN FAST_INTERVAL
                                  ELSE NORMAL_INTERVAL,
                        !.rtts = <<>>, !.items = <<>>,
                        !.now = None, !.now_dt = None]
    /\ UNCHANGED <<clock, shared, rt>>

\* Line 191 or 207: time.sleep, by the branch of line 162 the cycle took.
CcSleep ==
    /\ cc.pc = "sleep"
    /\ cc' = [cc EXCEPT !.pc = "while",
                        !.slept = IF cc.connected THEN NORMAL_INTERVAL
                                  ELSE FAST_INTERVAL,
                        !.rtts = <<>>, !.items = <<>>,
                        !.now = None, !.now_dt = None]
    /\ UNCHANGED <<clock, shared, rt>>

check_connection ==
    \/ CcWhile \/ CcProbe \/ CcAppendTs
    \/ CcAppendRtt \/ CcLogRtt \/ CcReconnect \/ CcDisconnect \/ CcSleep

\* ------------------------------------------------------------ rtt_tracker
\* Mutant of RtWhile: the loop is "while True".
RtWhile_IgnoresRunning ==
    /\ rt.pc = "while"
    /\ Started + 2 <= MaxCycles
    /\ rt' = [rt EXCEPT !.pc = "probe", !.cycles = @ + 1]
    /\ UNCHANGED <<clock, shared, cc>>

\* Line 211: the loop's test of running.
RtWhile ==
    /\ rt.pc = "while"
    /\ IF running
       THEN /\ Started + 2 <= MaxCycles
            /\ rt' = [rt EXCEPT !.pc = "probe", !.cycles = @ + 1]
       ELSE rt' = [rt EXCEPT !.pc = "done"]
    /\ UNCHANGED <<clock, shared, cc>>

\* Mutant of RtProbe: the tracker takes the verdict for the state.
RtProbe_SetsState ==
    /\ rt.pc = "probe"
    /\ \E out \in TrackerInputs :
          LET r == is_connected(out)
          IN /\ rt' = [rt EXCEPT !.rtts = r.rtts, !.now_dt = clock,
                                 !.items = Items(r.rtts),
                                 !.pc = IF r.rtts # <<>> THEN "append_ts"
                                        ELSE "sleep"]
             /\ disconnected' = ~r.connected
    /\ UNCHANGED <<clock, appended, running, disconnect_time,
                   outage_durations_by_day, last_checked_date, graph_data,
                   logfile, summaryfile, cc>>

\* Lines 212-215, as is_connected returns: the rtts, now_dt, and the start of
\* the for loop.
RtProbe ==
    /\ rt.pc = "probe"
    /\ \E out \in TrackerInputs :
          LET rtts == is_connected(out).rtts
          IN rt' = [rt EXCEPT !.rtts = rtts, !.now_dt = clock,
                              !.items = Items(rtts),
                              !.pc = IF rtts # <<>> THEN "append_ts" ELSE "sleep"]
    /\ UNCHANGED <<clock, shared, cc>>

\* Line 216: graph_data[label]["timestamps"].append(now_dt)
RtAppendTs ==
    /\ rt.pc = "append_ts"
    /\ LET label == Head(rt.items)
       IN /\ graph_data' = [graph_data EXCEPT ![label].timestamps =
                                                  DequeAppend(@, rt.now_dt)]
          /\ appended' = [appended EXCEPT
                 ![label].timestamps = Append(@, rt.now_dt),
                 ![label].samples = Append(@, <<rt.now_dt, rt.rtts[label]>>)]
    /\ rt' = [rt EXCEPT !.pc = "append_rtt"]
    /\ UNCHANGED <<clock, running, disconnected, disconnect_time,
                   outage_durations_by_day, last_checked_date, logfile,
                   summaryfile, cc>>

\* Line 217: graph_data[label]["rtts"].append(rtt), and the loop's next item.
RtAppendRtt ==
    /\ rt.pc = "append_rtt"
    /\ LET label == Head(rt.items)
       IN /\ graph_data' = [graph_data EXCEPT ![label].rtts =
                                                  DequeAppend(@, rt.rtts[label])]
          /\ appended' = [appended EXCEPT ![label].rtts =
                                              Append(@, rt.rtts[label])]
    /\ rt' = [rt EXCEPT !.items = Tail(rt.items),
                        !.pc = IF Tail(rt.items) = <<>> THEN "sleep"
                               ELSE "append_ts"]
    /\ UNCHANGED <<clock, running, disconnected, disconnect_time,
                   outage_durations_by_day, last_checked_date, logfile,
                   summaryfile, cc>>

\* Line 218: time.sleep(1)
RtSleep ==
    /\ rt.pc = "sleep"
    /\ rt' = [rt EXCEPT !.pc = "while",
                        !.slept = TRACKER_INTERVAL, !.rtts = <<>>, !.items = <<>>,
                        !.now_dt = None]
    /\ UNCHANGED <<clock, shared, cc>>

rtt_tracker ==
    \/ RtWhile \/ RtProbe \/ RtAppendTs \/ RtAppendRtt \/ RtSleep

\* ------------------------------------------------------------ specification
Next == Tick \/ on_exit \/ check_connection \/ rtt_tracker

Spec == Init /\ [][Next]_vars

\* ------------------------------------------------------------ properties
\* The wall clock, the tracked date and the pending start are well-formed.
TypeOK ==
    /\ clock \in Times
    /\ running \in BOOLEAN
    /\ disconnected \in BOOLEAN
    /\ disconnect_time \in Times \cup {None}
    /\ last_checked_date \in Dates
    /\ cc.pc \in {"while", "probe", "append_ts", "append_rtt", "log_rtt",
                  "reconnect", "disconnect", "sleep", "done", "raised"}
    /\ rt.pc \in {"while", "probe", "append_ts", "append_rtt", "sleep", "done"}

\* The number of lines of one kind in the log.
RECURSIVE CountKind(_, _)
CountKind(log, kind) ==
    IF log = <<>> THEN 0
    ELSE (IF Head(log).kind = kind THEN 1 ELSE 0) + CountKind(Tail(log), kind)

\* A step writes a disconnected or a reconnected line to the log.
LogsOutageEvent ==
    /\ Len(logfile') = Len(logfile) + 1
    /\ logfile'[Len(logfile')].kind \in {"OFFLINE", "WIEDER ONLINE"}

\* C1: in every cycle of check_connection the state changes exactly when the
\* cycle's verdict differs from the current state.  A change of disconnected
\* is made by the cycle's disconnect or reconnect step, under a verdict that
\* equals the old flag (connected while Offline, not connected while Online);
\* when the cycle's processing is over, disconnected is the negation of the
\* verdict; and a step that sets the pending start, records a duration or
\* logs a disconnected or reconnected line is a step that changes the state.
C1_TransitionIffVerdictDiffers ==
    [][ /\ (disconnected' # disconnected) =>
              /\ cc.pc \in {"disconnect", "reconnect"}
              /\ cc.connected = disconnected
              /\ disconnected' = ~cc.connected
        /\ (cc'.pc = "sleep") => (disconnected' = ~cc'.connected)
        /\ (\/ disconnect_time' # disconnect_time
            \/ outage_durations_by_day' # outage_durations_by_day
            \/ LogsOutageEvent) => (disconnected' # disconnected)
      ]_vars

\* C1 witness: a cycle has taken Offline to Online after an earlier cycle took
\* Online to Offline.
C1_Witness ==
    /\ cc.pc = "sleep"
    /\ cc.connected
    /\ ~disconnected
    /\ Len(logfile) >= 2
    /\ logfile[Len(logfile)].kind = "WIEDER ONLINE"

\* The outage records opened (disconnected lines) less those finalized
\* (reconnected lines).
OpenRecords == CountKind(logfile, "OFFLINE") - CountKind(logfile, "WIEDER ONLINE")

\* The durations recorded in all buckets.
RECURSIVE TotalDurations(_, _)
TotalDurations(by_day, keys) ==
    IF keys = {} THEN 0
    ELSE LET k == CHOOSE x \in keys : TRUE
         IN Len(by_day[k]) + TotalDurations(by_day, keys \ {k})

\* C2: at most one outage record is open, and one is open iff the state is
\* Offline: the starts logged exceed the ends logged by one while disconnected
\* and by none otherwise, every end logged has its duration in a bucket, and
\* while disconnected the pending start is set.
C2_OneOpenRecordIffOffline ==
    /\ OpenRecords \in {0, 1}
    /\ (OpenRecords = 1) <=> disconnected
    /\ CountKind(logfile, "WIEDER ONLINE") =
           TotalDurations(outage_durations_by_day, DOMAIN outage_durations_by_day)
    /\ disconnected => disconnect_time # None

\* C2 witness: a second outage is open after the first was finalized.
C2_Witness ==
    /\ disconnected
    /\ CountKind(logfile, "OFFLINE") = 2
    /\ CountKind(logfile, "WIEDER ONLINE") = 1

\* The bucket of a date text: its list of durations, empty when the key is absent.
BucketOf(by_day, date_str) ==
    IF date_str \in DOMAIN by_day THEN by_day[date_str] ELSE <<>>

\* The date texts that key a bucket in either of two dicts.
KeysOf(a, b) == DOMAIN a \cup DOMAIN b

\* C3: every Online->Offline->Online sequence opens one record and finalizes
\* one, with one duration end - start >= 0.  The step that takes Online to
\* Offline sets the pending start to the instant of that step and records no
\* duration; the start stays as set while Offline; the step that takes Offline
\* to Online appends the one duration (instant of that step) - (pending start),
\* which is not negative, to one bucket and leaves every other bucket as it
\* was; and no other step changes any bucket.
C3_OneDurationPerOutage ==
    [][ /\ (~disconnected /\ disconnected') =>
              /\ disconnect_time' = clock
              /\ outage_durations_by_day' = outage_durations_by_day
        /\ (disconnected /\ disconnected') => (disconnect_time' = disconnect_time)
        /\ (disconnected /\ ~disconnected') =>
              /\ clock - disconnect_time >= 0
              /\ \E k \in DOMAIN outage_durations_by_day' :
                    /\ outage_durations_by_day'[k] =
                           Append(BucketOf(outage_durations_by_day, k),
                                  clock - disconnect_time)
                    /\ \A j \in KeysOf(outage_durations_by_day,
                                       outage_durations_by_day') \ {k} :
                           BucketOf(outage_durations_by_day', j) =
                               BucketOf(outage_durations_by_day, j)
        /\ (outage_durations_by_day' # outage_durations_by_day) =>
              (disconnected /\ ~disconnected')
      ]_vars

\* C3 witness: an outage that lasted one tick has been finalized, and it is
\* the only one.
C3_Witness ==
    /\ ~disconnected
    /\ disconnect_time # None
    /\ TotalDurations(outage_durations_by_day, DOMAIN outage_durations_by_day) = 1
    /\ \E k \in DOMAIN outage_durations_by_day : outage_durations_by_day[k] = <<1>>
    /\ OpenRecords = 0

\* C4: a finalized duration goes to the bucket of the date of the outage's
\* start, and to no other.  Whenever a step changes the buckets, the bucket of
\* a date d changes iff d is the date of the pending start, whatever the date
\* of the step's instant and whatever the tracked date; and every key is the
\* text of a date.
C4_BucketOfStartDate ==
    [][ (outage_durations_by_day' # outage_durations_by_day) =>
           /\ \A d \in Dates :
                 (BucketOf(outage_durations_by_day', strftime(d))
                      # BucketOf(outage_durations_by_day, strftime(d)))
                 <=> (d = DateOf(disconnect_time))
           /\ DOMAIN outage_durations_by_day' \subseteq {strftime(d) : d \in Dates}
      ]_vars

\* C4 witness: an outage that started on day 0 was finalized on day 2 while the
\* tracked date was day 1, and only the bucket of day 0 exists.
C4_Witness ==
    /\ cc.pc = "sleep"
    /\ ~disconnected
    /\ DateOf(disconnect_time) = 0
    /\ DateOf(clock) = 2
    /\ last_checked_date = 1
    /\ DOMAIN outage_durations_by_day = {strftime(0)}
    /\ outage_durations_by_day[strftime(0)] = <<clock - disconnect_time>>
    /\ logfile[Len(logfile)].kind = "WIEDER ONLINE"

\* ------------------------------------------------------------ one pass, all results
\* Every combination of per-host ping results.
AllPasses == [PING_TARGETS -> PingResults]

\* check_connection's pass over the hosts, under any combination of results.
CcProbeAny == \E out \in AllPasses : CcProbeOf(out)

NextProbe == CcWhile \/ CcProbeAny

\* The first cycle of check_connection up to its verdict, under every
\* combination of per-host ping results.
SpecProbe == Init /\ [][NextProbe]_vars

\* A ping succeeded: the process exited with 0 and its output holds "TTL=".
Succeeded(o) == ~o.raised /\ o.ttl

\* The hosts of a pass whose ping succeeded.
SuccessfulHosts(out) == {h \in PING_TARGETS : Succeeded(out[h])}

\* C5: for every combination of per-host ping results, the cycle's verdict is
\* connected iff at least MIN_SUCCESSFUL_PINGS hosts' pings succeeded.
C5_VerdictIffThreshold ==
    (DOMAIN cc.out # {}) =>
        (cc.connected <=>
            Cardinality(SuccessfulHosts(cc.out)) >= MIN_SUCCESSFUL_PINGS)

\* C5 witness: exactly MIN_SUCCESSFUL_PINGS hosts succeeded, one of them
\* without a round-trip time, another ping's process failed and another's
\* output held no "TTL=", and the verdict is connected.
C5_Witness ==
    /\ DOMAIN cc.out # {}
    /\ Cardinality(SuccessfulHosts(cc.out)) = MIN_SUCCESSFUL_PINGS
    /\ Cardinality(DOMAIN cc.rtts) = 1
    /\ \E h \in PING_TARGETS : cc.out[h].raised
    /\ \E h \in PING_TARGETS : ~cc.out[h].raised /\ ~cc.out[h].ttl
    /\ cc.connected

\* The kinds of the disconnected and reconnected lines of the log, in order.
RECURSIVE OutageKinds(_)
OutageKinds(log) ==
    IF log = <<>> THEN <<>>
    ELSE IF Head(log).kind \in {"OFFLINE", "WIEDER ONLINE"}
         THEN <<Head(log).kind>> \o OutageKinds(Tail(log))
         ELSE OutageKinds(Tail(log))

\* C6: the disconnected and reconnected events reach the sink in causal order:
\* over the whole log they alternate strictly, beginning with a disconnected
\* one, so that every reconnected event follows the disconnected event of its
\* outage and no two of one kind are back to back.
C6_EventsAlternate ==
    LET ev == OutageKinds(logfile)
    IN \A i \in 1..Len(ev) :
          ev[i] = IF i % 2 = 1 THEN "OFFLINE" ELSE "WIEDER ONLINE"

\* C6 witness: two outages have been logged, with a line of round-trip times
\* between their events.
C6_Witness ==
    /\ OutageKinds(logfile) = <<"OFFLINE", "WIEDER ONLINE", "OFFLINE">>
    /\ CountKind(logfile, "RTT") >= 1

\* The dates of the summaries written, in order.
SummaryDates(sf) == [i \in 1..Len(sf) |-> strptime(sf[i].date)]

\* A step of check_connection starts a cycle: it passes the loop's test and
\* the rollover check, and the probe is next.
StartsCycle == cc.pc = "while" /\ cc'.pc = "probe"

\* C7: the rollover of a tracked date d happens exactly once, at the first
\* cycle whose current date differs from d and before that cycle's probe.  The
\* tracked date changes only in a step that starts a cycle, and then to a later
\* date; every step that starts a cycle leaves the tracked date at the current
\* date, also when days were skipped; the summary file changes only in a step
\* that changes the tracked date, by one summary, of the date tracked before
\* and of no skipped day; and the dates of the summaries written are strictly
\* increasing, so no date is processed twice.
C7_RolloverOnce ==
    [][ /\ (last_checked_date' # last_checked_date) =>
              /\ StartsCycle
              /\ last_checked_date' > last_checked_date
        /\ StartsCycle => (last_checked_date' = DateOf(clock))
        /\ (summaryfile' # summaryfile) =>
              /\ last_checked_date' # last_checked_date
              /\ Len(summaryfile') = Len(summaryfile) + 1
              /\ SubSeq(summaryfile', 1, Len(summaryfile)) = summaryfile
              /\ summaryfile'[Len(summaryfile')].date = strftime(last_checked_date)
        /\ \A i, j \in 1..Len(summaryfile') :
              (i < j) => (SummaryDates(summaryfile')[i] < SummaryDates(summaryfile')[j])
      ]_vars

\* C7 witness: the third cycle started on day 2 with day 0 tracked: it wrote
\* the summary of day 0, none of the skipped day 1, and tracks day 2.
C7_Witness ==
    /\ cc.cycles = 3
    /\ cc.pc = "probe"
    /\ DateOf(clock) = 2
    /\ last_checked_date = 2
    /\ Len(summaryfile) = 1
    /\ summaryfile[1].date = strftime(0)
    /\ summaryfile[1].messdauer = 2 * TicksPerDay

\* C8: no summary is written for a date without recorded outages.  A step
\* that starts a cycle while the bucket of the tracked date is absent or empty
\* leaves the summary file as it is, and every summary written counts at
\* least one outage.
C8_NoSummaryForEmptyDay ==
    [][ /\ (StartsCycle
            /\ BucketOf(outage_durations_by_day, strftime(last_checked_date)) = <<>>)
               => (summaryfile' = summaryfile)
        /\ \A i \in 1..Len(summaryfile') : summaryfile'[i].count >= 1
      ]_vars

\* C8 witness: the summary of day 0 was written on day 1, and the next cycle
\* rolled day 1, which has no bucket, over to day 2 without a summary.
C8_Witness ==
    /\ cc.cycles = 4
    /\ cc.pc = "probe"
    /\ last_checked_date = 2
    /\ strftime(1) \notin DOMAIN outage_durations_by_day
    /\ Len(summaryfile) = 1
    /\ summaryfile[1].date = strftime(0)
    /\ summaryfile[1].messdauer = TicksPerDay

\* The last n items of a sequence, all of it when it is shorter.
LastN(s, n) == IF Len(s) <= n THEN s ELSE SubSeq(s, Len(s) - n + 1, Len(s))

\* C9: for every host, neither deque of its series ever holds more than
\* MAX_POINTS items, under every interleaving of the two threads' appends.
C9_SeriesBounded ==
    \A label \in PING_TARGETS :
        /\ Len(graph_data[label].timestamps) <= MAX_POINTS
        /\ Len(graph_data[label].rtts) <= MAX_POINTS

\* C9 witness: both threads have appended to the gateway's series, more often
\* than its capacity, and both of its deques are full.
C9_Witness ==
    /\ Len(appended["gateway"].timestamps) > MAX_POINTS
    /\ Len(appended["gateway"].rtts) > MAX_POINTS
    /\ rt.pc = "sleep" /\ DOMAIN rt.rtts = {"gateway"}
    /\ CountKind(logfile, "RTT") >= 1
    /\ Len(graph_data["gateway"].timestamps) = MAX_POINTS
    /\ Len(graph_data["gateway"].rtts) = MAX_POINTS

\* C10: an append to a full deque evicts the single oldest item: each deque
\* holds the newest MAX_POINTS of the items ever appended to it, in the order
\* they arrived, and all of them while they are no more than MAX_POINTS.
C10_NewestInArrivalOrder ==
    \A label \in PING_TARGETS :
        /\ graph_data[label].timestamps = LastN(appended[label].timestamps, MAX_POINTS)
        /\ graph_data[label].rtts = LastN(appended[label].rtts, MAX_POINTS)

\* C10 witness: MAX_POINTS + 2 samples were appended to the gateway's series at
\* different instants, the first two are gone and the deque starts with the
\* third.
C10_Witness ==
    LET a == appended["gateway"].timestamps
    IN /\ Len(a) = MAX_POINTS + 2
       /\ Len(appended["gateway"].rtts) = MAX_POINTS + 2
       /\ a[1] < a[3]
       /\ a[3] < a[Len(a)]
       /\ Len(graph_data["gateway"].timestamps) = MAX_POINTS
       /\ graph_data["gateway"].timestamps[1] = a[3]

\* A thread is between the two appends of one sample for a host.
CcMidSample(label) == cc.pc = "append_rtt" /\ Head(cc.items) = label
RtMidSample(label) == rt.pc = "append_rtt" /\ Head(rt.items) = label

\* C11: the two loops' appends of a sample to one host's series exclude each
\* other, so that the i-th timestamp and the i-th rtt of a series come from
\* the same sample.  Stated for the states in which neither thread is between
\* the two appends of a sample for the host: never both threads at once are
\* between them, and the series' pairs are the newest samples, as they were
\* begun.
C11_SamplesPaired ==
    \A label \in PING_TARGETS :
        /\ ~(CcMidSample(label) /\ RtMidSample(label))
        /\ (~CcMidSample(label) /\ ~RtMidSample(label)) =>
              LET newest == LastN(appended[label].samples, MAX_POINTS)
              IN /\ Len(graph_data[label].timestamps) = Len(newest)
                 /\ Len(graph_data[label].rtts) = Len(newest)
                 /\ \A i \in 1..Len(newest) :
                       <<graph_data[label].timestamps[i],
                         graph_data[label].rtts[i]>> = newest[i]

\* C11, the consequence alone: in the states in which neither thread is
\* between the two appends of a sample for a host, the i-th timestamp and the
\* i-th rtt of the host's series come from the same sample.
C11_PairsFromOneSample ==
    \A label \in PING_TARGETS :
        (~CcMidSample(label) /\ ~RtMidSample(label)) =>
            \A i \in 1..Len(graph_data[label].timestamps) :
                \E j \in 1..Len(appended[label].samples) :
                    <<graph_data[label].timestamps[i],
                      graph_data[label].rtts[i]>> = appended[label].samples[j]

\* ------------------------------------------------------------ failing sinks
\* check_connection has no try/except: an exception raised by open() or
\* write() on the log or the summary file, or by notification.notify, leaves
\* the function at the statement that raised it and ends the thread
\* (pc "raised").  Each action below is one such statement, with the
\* assignments of its branch that ran before it.

\* Lines 152-156: write_daily_summary raises at line 144 (the bucket is not
\* empty, so line 126 does not return); line 157 is not reached.
CcWhileRaises ==
    /\ cc.pc = "while"
    /\ running
    /\ LET current_date == DateOf(clock)
           prev_str == strftime(last_checked_date)
       IN /\ current_date # last_checked_date
          /\ prev_str \in DOMAIN outage_durations_by_day
          /\ outage_durations_by_day[prev_str] # <<>>
    /\ cc' = [cc EXCEPT !.pc = "raised"]
    /\ UNCHANGED <<clock, shared, rt>>

\* Lines 169-170: open() of the log raises before the [RTT] line is written.
CcLogRttRaises ==
    /\ cc.pc = "log_rtt"
    /\ cc' = [cc EXCEPT !.pc = "raised"]
    /\ UNCHANGED <<clock, shared, rt>>

\* Lines 174-179: the duration is in its bucket (line 177), open() of the log
\* raises at line 179; line 182 is not reached.
CcReconnectRaises ==
    /\ cc.pc = "reconnect"
    /\ LET reconnect_time == clock
           duration == reconnect_time - disconnect_time
           date_str == strftime(DateOf(disconnect_time))
       IN outage_durations_by_day' =
              RecordOutage(outage_durations_by_day, date_str, duration)
    /\ cc' = [cc EXCEPT !.pc = "raised"]
    /\ UNCHANGED <<clock, running, disconnected, disconnect_time, last_checked_date,
                   appended, graph_data, logfile, summaryfile, rt>>

\* Lines 174-185: the outage has ended, notification.notify raises at line 185;
\* line 191 is not reached.
CcReconnectNotifyRaises ==
    /\ cc.pc = "reconnect"
    /\ LET reconnect_time == clock
           duration == reconnect_time - disconnect_time
           date_str == strftime(DateOf(disconnect_time))
       IN /\ outage_durations_by_day' =
                 RecordOutage(outage_durations_by_day, date_str, duration)
          /\ logfile' = Append(logfile, [kind |-> "WIEDER ONLINE", now |-> cc.now,
                                         duration |-> duration])
    /\ disconnected' = FALSE
    /\ cc' = [cc EXCEPT !.pc = "raised"]
    /\ UNCHANGED <<clock, running, disconnect_time, last_checked_date,
                   appended, graph_data, summaryfile, rt>>

\* Lines 195-196: disconnect_time is set, open() of the log raises at line 196;
\* line 198 is not reached.
CcDisconnectRaises ==
    /\ cc.pc = "disconnect"
    /\ disconnect_time' = clock
    /\ cc' = [cc EXCEPT !.pc = "raised"]
    /\ UNCHANGED <<clock, running, disconnected, outage_durations_by_day,
                   last_checked_date, appended, graph_data, logfile,
                   summaryfile, rt>>

\* Lines 195-200: the outage has started, notification.notify raises at line
\* 200; line 207 is not reached.
CcDisconnectNotifyRaises ==
    /\ cc.pc = "disconnect"
    /\ disconnect_time' = clock
    /\ logfile' = Append(logfile, [kind |-> "OFFLINE", now |-> cc.now])
    /\ disconnected' = TRUE
    /\ cc' = [cc EXCEPT !.pc = "raised"]
    /\ UNCHANGED <<clock, running, outage_durations_by_day, last_checked_date,
                   appended, graph_data, summaryfile, rt>>

SinkRaises ==
    \/ CcWhileRaises \/ CcLogRttRaises \/ CcReconnectRaises
    \/ CcReconnectNotifyRaises \/ CcDisconnectRaises \/ CcDisconnectNotifyRaises

NextSinkFails == Next \/ SinkRaises

\* The program with sinks that may fail: every write of the log or of a
\* summary, and every notification, either succeeds or raises.
SpecSinkFails == Init /\ [][NextSinkFails]_vars

\* C12: a failure of a sink during a cycle does not leave or halt
\* check_connection, and the state and the outage bookkeeping stay consistent:
\* the thread is never ended by an exception, the state is Offline iff one
\* outage record is open, and every duration in a bucket is that of an outage
\* whose end was logged.
C12_SinkFailureContained ==
    /\ cc.pc # "raised"
    /\ (OpenRecords = 1) <=> disconnected
    /\ CountKind(logfile, "WIEDER ONLINE") =
           TotalDurations(outage_durations_by_day, DOMAIN outage_durations_by_day)

\* C13: after each cycle the loop sleeps FAST_INTERVAL iff the state after
\* the cycle's processing is Offline, and NORMAL_INTERVAL otherwise.  A cycle
\* ends only by its sleep; the sleep's interval is FAST_INTERVAL when
\* disconnected is set and NORMAL_INTERVAL when it is not; and a step that
\* changes the state is followed by the sleep of its cycle, so that the cycle
\* from Online to Offline sleeps FAST_INTERVAL and the one from Offline to
\* Online sleeps NORMAL_INTERVAL.
C13_IntervalByState ==
    [][ /\ (cc.pc # "while" /\ cc'.pc = "while") =>
              /\ cc.pc = "sleep"
              /\ cc'.slept = IF disconnected THEN FAST_INTERVAL
                             ELSE NORMAL_INTERVAL
        /\ (cc'.slept # cc.slept) => (cc.pc = "sleep")
        /\ (disconnected' # disconnected) => (cc'.pc = "sleep")
        /\ (cc.pc = "sleep") => (disconnected' = disconnected)
      ]_vars

\* C13 witness: the first cycle went Offline and the second, which has just
\* slept NORMAL_INTERVAL, came back Online.
C13_Witness ==
    /\ cc.pc = "while"
    /\ cc.cycles = 2
    /\ cc.slept = NORMAL_INTERVAL
    /\ ~disconnected
    /\ OutageKinds(logfile) = <<"OFFLINE", "WIEDER ONLINE">>

\* Both threads are scheduled again and again: a ping returns (its process
\* ends by ping's own timeout) and time.sleep returns, so a thread whose next
\* statement can run does run it.
SpecFair == Spec /\ WF_vars(check_connection) /\ WF_vars(rtt_tracker)

\* C14: once running is false it stays false, neither loop starts another
\* iteration (each finishes at most the one it is in, so no new probe cycle
\* starts), and both loops eventually end.
C14_StopsAfterExit ==
    /\ [][ ~running =>
              /\ ~running'
              /\ cc'.cycles = cc.cycles
              /\ rt'.cycles = rt.cycles
              /\ (cc'.pc = "probe") => (cc.pc = "probe")
              /\ (rt'.pc = "probe") => (rt.pc = "probe")
         ]_vars
    /\ (~running ~> (cc.pc = "done" /\ rt.pc = "done"))

\* C14 witness: exit was chosen while check_connection was between the two
\* appends of a sample and rtt_tracker was asleep; both loops have ended, and
\* check_connection finished its iteration: the sample's rtt and the [RTT]
\* line are there.
C14_Witness ==
    /\ ~running
    /\ cc.pc = "done" /\ rt.pc = "done"
    /\ cc.cycles >= 1 /\ rt.cycles >= 1
    /\ cc.slept = NORMAL_INTERVAL /\ rt.slept = TRACKER_INTERVAL
    /\ CountKind(logfile, "RTT") = cc.cycles

\* ------------------------------------------------------------ one rollover, all buckets
\* Most outages that a bucket holds, and the longest of them, in the states
\* from which the rollover is explored.
MaxOutages == 3
MaxDuration == 2

\* The lists of durations a bucket can hold: outages_durations_by_day's lists
\* are made by setdefault(date_str, []).append(duration) (line 177), so none
\* is empty.
DurationLists == UNION {[1..n -> 0..MaxDuration] : n \in 1..MaxOutages}

\* check_connection at the top of its loop (line 151) at midnight of a tracked
\* day d that a later day follows, Online, with any list of durations in the
\* bucket of d and, for every earlier day, a bucket of one outage.
InitSummary ==
    /\ running = TRUE
    /\ disconnected = FALSE
    /\ disconnect_time = None
    /\ \E d \in {e \in Dates : e < DateOf(MaxClock)} :
          /\ clock = Midnight(d)
          /\ last_checked_date = d
          /\ \E durs \in DurationLists :
                \E earlier \in 0..MaxDuration :
                    outage_durations_by_day =
                        [k \in {strftime(e) : e \in 0..d} |->
                             IF k = strftime(d) THEN durs ELSE <<earlier>>]
    /\ graph_data = [label \in PING_TARGETS |-> [timestamps |-> <<>>, rtts |-> <<>>]]
    /\ logfile = <<>>
    /\ appended = [label \in PING_TARGETS |->
                       [timestamps |-> <<>>, rtts |-> <<>>, samples |-> <<>>]]
    /\ summaryfile = <<>>
    /\ cc = [pc |-> "while", cycles |-> 0, out |-> <<>>,
             connected |-> FALSE, rtts |-> <<>>, now |-> None, now_dt |-> None,
             items |-> <<>>, slept |-> None]
    /\ rt = [pc |-> "while", cycles |-> 0, rtts |-> <<>>, now_dt |-> None,
             items |-> <<>>, slept |-> None]

NextSummary == Tick \/ CcWhile

\* The rollover of lines 152-157 with write_daily_summary, for every list of
\* durations in the bucket of the tracked day.
SpecSummary == InitSummary /\ [][NextSummary]_vars

\* The sum of the items of a list, by its indices.
RECURSIVE SumOver(_, _)
SumOver(s, idx) ==
    IF idx = {} THEN 0
    ELSE LET i == CHOOSE x \in idx : TRUE IN s[i] + SumOver(s, idx \ {i})

\* C15: a summary written for a date with at least one outage reports the
\* number of outages, their total, the longest and the shortest as the
\* length, the sum, the maximum and the minimum of the list in that date's
\* bucket when the summary is written, and of no other bucket.
C15_SummaryOfBucket ==
    [][ (summaryfile' # summaryfile) =>
           LET s == summaryfile'[Len(summaryfile')]
               b == BucketOf(outage_durations_by_day, s.date)
           IN /\ Len(summaryfile') = Len(summaryfile) + 1
              /\ s.date = strftime(last_checked_date)
              /\ Len(b) >= 1
              /\ s.count = Len(b)
              /\ s.total = SumOver(b, 1..Len(b))
              /\ \E i \in 1..Len(b) : b[i] = s.longest
              /\ \A i \in 1..Len(b) : b[i] <= s.longest
              /\ \E i \in 1..Len(b) : b[i] = s.shortest
              /\ \A i \in 1..Len(b) : b[i] >= s.shortest
      ]_vars

\* C15 witness: the summary of day 1 reports three outages of different
\* lengths, the shortest of them neither the first nor the last, while the
\* bucket of day 0 holds one outage.
C15_Witness ==
    /\ Len(summaryfile) = 1
    /\ summaryfile[1].date = strftime(1)
    /\ summaryfile[1].count = 3
    /\ summaryfile[1].total = 3
    /\ summaryfile[1].longest = 2
    /\ summaryfile[1].shortest = 0
    /\ outage_durations_by_day[strftime(1)][2] = 0
    /\ Len(outage_durations_by_day[strftime(0)]) = 1

\* C16: every finalized outage is reflected in the daily summary of the date
\* it started on, also when it ends after the first cycle of a later date.
\* The summary of a date is written by the rollover that moves the tracked
\* date past it, and by no later step; so, for every date that the tracked
\* date has passed, the durations in its bucket are those its summary
\* reports.
C16_OutageInSummaryOfStartDate ==
    \A d \in Dates :
        LET b == BucketOf(outage_durations_by_day, strftime(d))
        IN (d < last_checked_date /\ b # <<>>) =>
               \E i \in 1..Len(summaryfile) :
                   /\ summaryfile[i].date = strftime(d)
                   /\ summaryfile[i].count = Len(b)
                   /\ summaryfile[i].total = SumOver(b, 1..Len(b))

\* C17: in every reachable state, under every interleaving of the two
\* threads, the timestamps of each host's series do not decrease from the
\* oldest to the newest.
C17_TimestampsNonDecreasing ==
    \A label \in PING_TARGETS :
        LET ts == graph_data[label].timestamps
        IN \A i, j \in 1..Len(ts) : (i < j) => (ts[i] <= ts[j])

\* ------------------------------------------------------------ one pass, all outputs
\* Every combination of per-host ping outputs, those included whose text
\* after "Zeit=" is not an integer.
AllOutputs == [PING_TARGETS -> PingOutputs]

\* check_connection's pass over the hosts, under any combination of outputs.
CcProbeText == \E out \in AllOutputs : CcProbeOf(out)

NextParse == CcWhile \/ CcProbeText

\* The first cycle of check_connection up to its verdict, under every
\* combination of per-host ping outputs.
SpecParse == Init /\ [][NextParse]_vars

\* The hosts of a pass whose ping succeeded and gave a round-trip time that
\* int() accepts.
HostsWithRtt(out) ==
    {h \in SuccessfulHosts(out) : out[h].zeit \notin {None, NotANumber}}

\* C18: a probe that succeeds without a parseable round-trip time still
\* counts as a vote and gives no sample, a failed probe only takes away its
\* host's vote, neither ends the cycle or the loop, and every host is probed
\* once per cycle.  After a pass the thread has not been left by an
\* exception, every host was pinged, once and in the order of PING_TARGETS,
\* the verdict counts every host whose ping succeeded, and the rtts are those
\* of the hosts whose round-trip time could be parsed.
C18_UnparsedRttStillVotes ==
    (DOMAIN cc.out # {}) =>
        /\ cc.pc # "raised"
        /\ PingLoop(cc.out, 1, 0, <<>>).pinged = HostOrder
        /\ cc.connected <=>
               (Cardinality(SuccessfulHosts(cc.out)) >= MIN_SUCCESSFUL_PINGS)
        /\ DOMAIN cc.rtts = HostsWithRtt(cc.out)
        /\ \A h \in DOMAIN cc.rtts : cc.rtts[h] = cc.out[h].zeit

\* A step appends one item to a sequence.
AppendsTo(s, t, x) == t = Append(s, x)

\* The [RTT] lines of the log.
RttEvents(log) == SelectSeq(log, LAMBDA e : e.kind = "RTT")

\* C19: a cycle of check_connection forwards its rtts only when its verdict
\* is connected and the rtts are not empty.  For every step of
\* check_connection: the pass sets out the hosts to append for, each host
\* with an rtt once, exactly when connected and the rtts are not empty; a
\* step that changes a series belongs to such a cycle, changes the series of
\* the one host in turn, which has an rtt, by this cycle's timestamp or by
\* that host's rtt, and leaves every other host's series as it is; the hosts
\* in turn are done one after the other until none is left, and then one
\* [RTT] line is written, with the sum and the number of the rtts; no other
\* step writes an [RTT] line; and a cycle whose verdict is not connected
\* goes from the pass to its sleep without any of these steps.
C19_ForwardsIffConnected ==
    [][ (cc' # cc) =>
          /\ (cc.pc = "probe") =>
                IF cc'.connected /\ cc'.rtts # <<>>
                THEN /\ cc'.pc = "append_ts"
                     /\ cc'.items = Items(cc'.rtts)
                     /\ {cc'.items[i] : i \in 1..Len(cc'.items)} = DOMAIN cc'.rtts
                     /\ Len(cc'.items) = Cardinality(DOMAIN cc'.rtts)
                ELSE cc'.pc \in {"reconnect", "disconnect", "sleep"}
          /\ (cc'.pc \in {"append_ts", "append_rtt", "log_rtt"}) =>
                (cc'.connected /\ cc'.rtts # <<>>)
          /\ (graph_data' # graph_data \/ appended' # appended) =>
                /\ cc.connected /\ cc.rtts # <<>>
                /\ cc.pc \in {"append_ts", "append_rtt"}
                /\ Head(cc.items) \in DOMAIN cc.rtts
                /\ \A h \in PING_TARGETS \ {Head(cc.items)} :
                      /\ graph_data'[h] = graph_data[h]
                      /\ appended'[h] = appended[h]
          /\ (cc.pc = "append_ts") =>
                LET label == Head(cc.items)
                IN /\ AppendsTo(appended[label].timestamps,
                                appended'[label].timestamps, cc.now_dt)
                   /\ appended'[label].rtts = appended[label].rtts
                   /\ graph_data'[label].rtts = graph_data[label].rtts
                   /\ cc'.items = cc.items
                   /\ cc'.pc = "append_rtt"
          /\ (cc.pc = "append_rtt") =>
                LET label == Head(cc.items)
                IN /\ AppendsTo(appended[label].rtts,
                                appended'[label].rtts, cc.rtts[label])
                   /\ appended'[label].timestamps = appended[label].timestamps
                   /\ graph_data'[label].timestamps = graph_data[label].timestamps
                   /\ cc'.items = Tail(cc.items)
                   /\ cc'.pc = IF cc'.items = <<>> THEN "log_rtt" ELSE "append_ts"
          /\ (cc.pc = "log_rtt") =>
                /\ Len(logfile') = Len(logfile) + 1
                /\ logfile'[Len(logfile')].kind = "RTT"
                /\ logfile'[Len(logfile')].n = Cardinality(DOMAIN cc.rtts)
                /\ logfile'[Len(logfile')].sum =
                       SumValues(cc.rtts, Items(cc.rtts))
          /\ (RttEvents(logfile') # RttEvents(logfile)) => (cc.pc = "log_rtt")
          /\ (cc.pc # "probe" /\ cc'.pc # "while" /\ cc'.pc # "done") =>
                /\ cc'.connected = cc.connected
                /\ cc'.rtts = cc.rtts
      ]_vars

\* C19 witness: the first cycle forwarded the rtts of two hosts; the second,
\* in which only the gateway answered, with an rtt, has the verdict not
\* connected and is at its sleep: each of the two series still holds the one
\* sample and the log the one [RTT] line.
C19_Witness ==
    /\ cc.cycles = 2
    /\ cc.pc = "sleep"
    /\ ~cc.connected
    /\ DOMAIN cc.rtts = {"gateway"}
    /\ rt.cycles = 0
    /\ Len(appended["gateway"].samples) = 1
    /\ Len(appended["google"].samples) = 1
    /\ Len(graph_data["gateway"].rtts) = 1
    /\ Len(RttEvents(logfile)) = 1
    /\ RttEvents(logfile)[1].n = 2

\* The connectivity state, the pending start, the buckets, the tracked date
\* and the two files that take the events.
monitor_state ==
    <<disconnected, disconnect_time, outage_durations_by_day,
      last_checked_date, logfile, summaryfile>>

\* C20: rtt_tracker only fills the series.  No step of rtt_tracker changes
\* the connectivity state, the pending start, the buckets or the tracked
\* date, or writes to the log or the summary file, whatever its pass gave;
\* a step of it that changes anything beyond its own locals appends to the
\* series of the host in turn; and every change of the former is made by a
\* step of check_connection.
C20_TrackerOnlyFillsSeries ==
    [][ /\ (rt' # rt) =>
              /\ UNCHANGED monitor_state
              /\ UNCHANGED <<running, clock, cc>>
              /\ (graph_data' # graph_data) =>
                    /\ rt.pc \in {"append_ts", "append_rtt"}
                    /\ \A h \in PING_TARGETS \ {Head(rt.items)} :
                          graph_data'[h] = graph_data[h]
        /\ (monitor_state' # monitor_state) => (cc' # cc /\ rt' = rt)
      ]_vars

\* C20 witness: rtt_tracker alone has run two iterations, one that appended
\* a sample for the gateway and one whose pings all failed, and is at its
\* sleep: the state is still Online, no start is pending, there is no bucket
\* and both files are empty.
C20_Witness ==
    /\ rt.cycles = 2
    /\ rt.pc = "sleep"
    /\ rt.rtts = <<>>
    /\ cc.cycles = 0
    /\ Len(appended["gateway"].samples) = 1
    /\ Len(graph_data["gateway"].rtts) = 1
    /\ ~disconnected
    /\ disconnect_time = None
    /\ outage_durations_by_day = <<>>
    /\ logfile = <<>> /\ summaryfile = <<>>

====
